---- MODULE Spec2Model ----
(***************************************************************************)
(* State-machine model of the connectivity layer of codex-monitor-webui:   *)
(*   - the RPC session client (class RpcClient, src/platform/rpcClient.ts, *)
(*     kept in src/src/platform/backendConfig.ts lines 133-384), and       *)
(*   - the process supervisor (src/bin/codex-monitor.mjs).                 *)
(*                                                                         *)
(* The session client runs on a single-threaded event loop.  One action of *)
(* the model is one callback run to completion: a call of the public API,  *)
(* one transport event handler, one timer callback, or one promise         *)
(* continuation (microtask).  Transport events and timers (macrotasks) are *)
(* delivered only when the microtask queue is empty; API calls may happen  *)
(* at any point, since user continuations run as microtasks too.           *)
(***************************************************************************)
EXTENDS Integers, Sequences, FiniteSets, TLC

\* ------------------------------------------------------------------ bounds
\* Each specification of the session client runs the same steps within its
\* own bounds: transports (WebSocket objects) created, call() invocations,
\* notification method names, distinct handler references.
ConnSockets == 4     \* SpecConn: connection life cycle
ConnCalls == 1
ConnTopics == 1
ConnHandlers == 1
ConnSubs == 1        \* subscribe() calls per topic and handler
CallSockets == 2     \* SpecCalls: correlated calls
CallCalls == 2
CallTopics == 1
CallHandlers == 1
CallSubs == 1
NoteSockets == 2     \* SpecNote: subscriptions and notification fan-out
NoteTopics == 1
NoteHandlers == 2
NoteSubs == 2

\* --------------------------------------------------------------- variables
VARIABLES
    socket,           \* this.socket: 0 (null) or the transport held
    connectPromise,   \* this.connectPromise: 0 (null) or the promise held
    nextId,           \* this.nextId
    pending,          \* keys of this.pending (ids with a PendingRequest entry)
    listeners,        \* this.listeners: topic -> handlers in insertion order
    reconnectHandle,  \* this.reconnectHandle !== null
    intentionalClose, \* this.intentionalClose
    rs,               \* state of every transport created so far
    pst,              \* state of the promise created with each transport
    reactions,        \* continuations registered on each connect promise
    mq,               \* microtask queue (promise continuations ready to run)
    timers,           \* ids whose call timeout is armed (setTimeout handles)
    calls,            \* one record per call() invocation, in invocation order
    alloc,            \* history: ids in the order call() allocated them
    unsubd,           \* history: <<topic, handler>> unsubscribed since last subscribe
    subs,             \* history: <<topic, handler>> -> subscribe() calls made, closures used
    closure,          \* history: was there work at the last unexpected close
    quiet,            \* history: disconnect() returned, no call/subscribe/connect since
    note,             \* history: the last notification dispatch
    ev,               \* history: what the last step was
    \* --- the supervisor (bin/codex-monitor.mjs)
    pc,               \* where main() stands
    options,          \* the parsed options that decide the flow
    children,         \* the children array of main(), in spawn order
    proc,             \* the ChildProcess objects: backend, frontend
    shuttingDown,     \* monitor(): shuttingDown
    remaining,        \* monitor(): remaining
    elapsed,          \* waitForBackendReady: retry intervals since startedAt
    ready,            \* history: how the wait for the backend ended
    exitStatus,       \* exit status of the supervisor, -1 while it runs
    cause,            \* history: the place in the code that ended the supervisor
    firstSignal,      \* history: the first termination signal delivered to it
    \* --- the backend acquirer (bin/codex-monitor.mjs, resolveBackendCommand)
    cacheEntry,       \* the file at <cache-dir>/backend/<version>/<platform>/<name>
    acq,              \* one run of resolveBackendCommand: position, inputs, result
    \* --- the install step (scripts/install-backend.mjs)
    inst,             \* one run of the installer: position, inputs, outcome
    dl,               \* the cache directory and the processes downloading into it
    \* --- the connection target resolver (platform/backendConfig.ts)
    cfg,              \* one evaluation of getBackendConfig: inputs and result
    \* --- the web updater (features/update/hooks/useUpdater.ts)
    upd,              \* the hook: its state, refs, runs in flight and timers
    \* --- the web dictation controller (platform/dictation.ts)
    dict              \* controller.state, controller.recognition, the recognitions

rpcVars == <<socket, connectPromise, nextId, pending, listeners, reconnectHandle,
             intentionalClose, rs, pst, reactions, mq, timers, calls, alloc,
             unsubd, subs, closure, quiet, note, ev>>

supVars == <<pc, options, children, proc, shuttingDown, remaining, elapsed, ready,
             exitStatus, cause, firstSignal>>

acqVars == <<cacheEntry, acq, inst, dl>>

uiVars == <<cfg, upd, dict>>

vars == <<rpcVars, supVars, acqVars, uiVars>>

\* The whole state as one record, so that a handler that calls other methods
\* (call -> connect, onclose -> rejectAllPending -> scheduleReconnect) is the
\* composition of their state transformers.
St == [socket |-> socket, connectPromise |-> connectPromise, nextId |-> nextId,
       pending |-> pending, listeners |-> listeners,
       reconnectHandle |-> reconnectHandle, intentionalClose |-> intentionalClose,
       rs |-> rs, pst |-> pst, reactions |-> reactions, mq |-> mq,
       timers |-> timers, calls |-> calls, alloc |-> alloc, unsubd |-> unsubd,
       subs |-> subs, closure |-> closure,
       quiet |-> quiet, note |-> note, ev |-> ev]

Become(st) ==
    /\ socket' = st.socket
    /\ connectPromise' = st.connectPromise
    /\ nextId' = st.nextId
    /\ pending' = st.pending
    /\ listeners' = st.listeners
    /\ reconnectHandle' = st.reconnectHandle
    /\ intentionalClose' = st.intentionalClose
    /\ rs' = st.rs
    /\ pst' = st.pst
    /\ reactions' = st.reactions
    /\ mq' = st.mq
    /\ timers' = st.timers
    /\ calls' = st.calls
    /\ alloc' = st.alloc
    /\ unsubd' = st.unsubd
    /\ subs' = st.subs
    /\ closure' = st.closure
    /\ quiet' = st.quiet
    /\ note' = st.note
    /\ ev' = st.ev
    /\ UNCHANGED <<supVars, acqVars, uiVars>>

\* ----------------------------------------------------------------- helpers
Without(seq, x) == SelectSeq(seq, LAMBDA y: y # x)

Range(seq) == {seq[i] : i \in 1..Len(seq)}

IndexOf(seq, x) == IF x \in Range(seq)
                   THEN CHOOSE i \in 1..Len(seq): seq[i] = x
                   ELSE 0

NoReaction == [k |-> "none", c |-> 0]
CatchReaction == [k |-> "catch", c |-> 0]
CallReaction(c) == [k |-> "call", c |-> c]

\* The call that owns an id (the closure of its resolve/reject/timeout).
Owner(st, id) == CHOOSE c \in 1..Len(st.calls): st.calls[c].id = id

\* pending.resolve(value): the call's promise is asked to resolve.
ResolveCall(st, c) ==
    [st EXCEPT !.calls[c].res = @ + 1, !.calls[c].phase = "settled",
               !.calls[c].out = IF st.calls[c].out = "" THEN "result" ELSE @]

\* pending.reject(error) / throw in the async function: asked to reject.
RejectCall(st, c, why) ==
    [st EXCEPT !.calls[c].rej = @ + 1, !.calls[c].phase = "settled",
               !.calls[c].out = IF st.calls[c].out = "" THEN why ELSE @]

\* ------------------------------------------------- RpcClient: the methods
\* connect() needs a fresh WebSocket (neither early return applies).
NeedsTransport(st) ==
    /\ ~(st.socket # 0 /\ st.rs[st.socket] = "OPEN")
    /\ st.connectPromise = 0

\* connect(), with the continuation the caller chains on the returned promise:
\* a call() awaiting it, the reconnect timer's .catch, or nothing.
connect(st, react) ==
    IF st.socket # 0 /\ st.rs[st.socket] = "OPEN"
    THEN \* return Promise.resolve(): an awaiting call continues as a microtask
         IF react.k = "call"
         THEN [st EXCEPT !.mq = Append(@, [k |-> "call", c |-> react.c, ok |-> TRUE])]
         ELSE st
    ELSE IF st.connectPromise # 0
    THEN IF react.k = "none"
         THEN st
         ELSE [st EXCEPT !.reactions[st.connectPromise] = Append(@, react)]
    ELSE LET s == Len(st.rs) + 1 IN
         [st EXCEPT !.intentionalClose = FALSE,
                    !.connectPromise = s,
                    !.socket = s,
                    !.rs = Append(@, "CONNECTING"),
                    !.pst = Append(@, "pending"),
                    !.reactions = Append(@, IF react.k = "none" THEN <<>> ELSE <<react>>)]

\* WebSocket.close(): a connecting transport is failed (error, then close),
\* an open one starts the closing handshake (close); otherwise nothing.
CloseTransport(r) ==
    CASE r = "CONNECTING" -> "CLOSING_FAIL"
      [] r = "OPEN" -> "CLOSING"
      [] OTHER -> r

disconnect(st) ==
    LET a == [st EXCEPT !.intentionalClose = TRUE, !.reconnectHandle = FALSE]
    IN IF a.socket # 0
       THEN [a EXCEPT !.rs[a.socket] = CloseTransport(@), !.socket = 0]
       ELSE a

\* Variant: the intentional-close flag is not consulted.
scheduleReconnectUnguarded(st) ==
    IF st.reconnectHandle
    THEN st
    ELSE [st EXCEPT !.reconnectHandle = TRUE]

scheduleReconnect(st) ==
    IF st.reconnectHandle \/ st.intentionalClose
    THEN st
    ELSE [st EXCEPT !.reconnectHandle = TRUE]

\* Variant: the timer reconnects whether or not there is anything to resume.
reconnectTimerAlways(st) ==
    connect([st EXCEPT !.reconnectHandle = FALSE], CatchReaction)

\* The callback of the reconnect timer.
reconnectTimer(st) ==
    LET a == [st EXCEPT !.reconnectHandle = FALSE]
    IN IF DOMAIN a.listeners = {} /\ a.pending = {}
       THEN a
       ELSE connect(a, CatchReaction)

MinOf(S) == CHOOSE x \in S: \A y \in S: x <= y

\* Variant: the entry is rejected and deleted, its timeout is left armed.
rejectOneKeepsTimer(st, id) ==
    RejectCall([st EXCEPT !.pending = @ \ {id}], Owner(st, id), "disconnected")

\* One iteration of rejectAllPending's loop body.
rejectOne(st, id) ==
    RejectCall([st EXCEPT !.timers = @ \ {id}, !.pending = @ \ {id}],
               Owner(st, id), "disconnected")

RECURSIVE rejectAllPending(_)
rejectAllPending(st) ==
    IF st.pending = {}
    THEN st
    ELSE rejectAllPending(rejectOne(st, MinOf(st.pending)))

\* Variant: a failed send deletes the entry and leaves its timeout armed.
sendFailedKeepsTimer(st, c, id) ==
    RejectCall(IF id \in st.pending
               THEN [st EXCEPT !.pending = @ \ {id}]
               ELSE st, c, "send")

\* The continuation of call() after `await this.connect()`; ok says whether
\* the awaited promise resolved, throws whether socket.send() throws.
sendFailed(st, c, id) ==
    RejectCall(IF id \in st.pending
               THEN [st EXCEPT !.timers = @ \ {id}, !.pending = @ \ {id}]
               ELSE st, c, "send")

\* Variant: ids restart from the number of pending calls.
allocateIdReused(st) == Cardinality(st.pending) + 1

allocateId(st) == st.nextId

\* Variant: the id is taken before the connection is awaited.
callContinueAllocatesFirst(st, c, ok, throws) ==
    LET b == [st EXCEPT !.nextId = @ + 1]
    IN IF ~ok
       THEN RejectCall(b, c, "connfailed")
       ELSE IF st.socket = 0 \/ st.rs[st.socket] # "OPEN"
       THEN RejectCall(b, c, "notconnected")
       ELSE LET id == allocateId(st)
                a == [b EXCEPT !.timers = @ \cup {id},
                               !.pending = @ \cup {id},
                               !.calls[c].id = id,
                               !.calls[c].phase = "sent",
                               !.calls[c].on = st.socket,
                               !.alloc = Append(@, id)]
            IN IF throws THEN sendFailed(a, c, id) ELSE a

callContinue(st, c, ok, throws) ==
    IF ~ok
    THEN RejectCall(st, c, "connfailed")
    ELSE IF st.socket = 0 \/ st.rs[st.socket] # "OPEN"
    THEN RejectCall(st, c, "notconnected")
    ELSE LET id == allocateId(st)
             a == [st EXCEPT !.nextId = @ + 1,
                             !.timers = @ \cup {id},
                             !.pending = @ \cup {id},
                             !.calls[c].id = id,
                             !.calls[c].phase = "sent",
                             !.calls[c].on = st.socket,
                             !.alloc = Append(@, id)]
         IN IF throws THEN sendFailed(a, c, id) ELSE a

\* Variant: the timeout rejects the call and leaves its entry in the map.
callTimeoutKeepsEntry(st, id) ==
    RejectCall([st EXCEPT !.timers = @ \ {id}], Owner(st, id), "timeout")

\* The callback of a call's timeout timer.
callTimeout(st, id) ==
    RejectCall([st EXCEPT !.timers = @ \ {id}, !.pending = @ \ {id}],
               Owner(st, id), "timeout")

\* History of the closures subscribe(t, h) has returned: how many were made,
\* and how many of them have been called.
Made(st, t, h) == IF <<t, h>> \in DOMAIN st.subs THEN st.subs[<<t, h>>].made ELSE 0
Spent(st, t, h) == IF <<t, h>> \in DOMAIN st.subs THEN st.subs[<<t, h>>].spent ELSE 0

\* Variant: handlers are kept in an array, a repeated handler is stored again.
subscribeAppends(st, t, h) ==
    LET set == IF t \in DOMAIN st.listeners THEN st.listeners[t] ELSE <<>>
        a == [st EXCEPT !.listeners = [x \in DOMAIN @ \cup {t} |->
                                          IF x = t THEN Append(set, h) ELSE @[x]],
                        !.unsubd = @ \ {<<t, h>>},
                        !.subs = [p \in DOMAIN @ \cup {<<t, h>>} |->
                                     IF p = <<t, h>>
                                     THEN [made |-> Made(st, t, h) + 1,
                                           spent |-> Spent(st, t, h)]
                                     ELSE @[p]]]
    IN connect(a, NoReaction)

\* subscribe(method, handler) up to the returned closure.
subscribe(st, t, h) ==
    LET set == IF t \in DOMAIN st.listeners THEN st.listeners[t] ELSE <<>>
        added == IF h \in Range(set) THEN set ELSE Append(set, h)
        a == [st EXCEPT !.listeners = [x \in DOMAIN @ \cup {t} |->
                                          IF x = t THEN added ELSE @[x]],
                        !.unsubd = @ \ {<<t, h>>},
                        !.subs = [p \in DOMAIN @ \cup {<<t, h>>} |->
                                     IF p = <<t, h>>
                                     THEN [made |-> Made(st, t, h) + 1,
                                           spent |-> Spent(st, t, h)]
                                     ELSE @[p]]]
    IN connect(a, NoReaction)

\* Variant: the closure leaves the emptied set in the map.
unsubscribeKeepsTopic(st, t, h) ==
    LET a == [st EXCEPT !.unsubd = @ \cup {<<t, h>>},
                        !.subs[<<t, h>>].spent = IF @ < Made(st, t, h) THEN @ + 1 ELSE @]
    IN IF t \notin DOMAIN a.listeners
       THEN a
       ELSE [a EXCEPT !.listeners[t] = Without(a.listeners[t], h)]

\* The closure subscribe(method, handler) returns.
unsubscribe(st, t, h) ==
    LET a == [st EXCEPT !.unsubd = @ \cup {<<t, h>>},
                        !.subs[<<t, h>>].spent = IF @ < Made(st, t, h) THEN @ + 1 ELSE @]
    IN IF t \notin DOMAIN a.listeners
       THEN a
       ELSE LET current == Without(a.listeners[t], h)
            IN IF Len(current) = 0
               THEN [a EXCEPT !.listeners = [x \in DOMAIN @ \ {t} |-> @[x]]]
               ELSE [a EXCEPT !.listeners[t] = current]

\* What a handler does when invoked: 0 returns, k > 0 calls the unsubscribe
\* closure of handler k on the dispatched topic, Throws throws.
Throws == -1

\* Variant: the loop walks the list by index and does not notice deletions, so
\* the handler after a deleted one is skipped.
RECURSIVE dispatchSkipping(_, _, _, _, _)
dispatchSkipping(st, t, i, beh, log) ==
    LET cur == IF t \in DOMAIN st.listeners THEN st.listeners[t] ELSE <<>>
    IN IF i > Len(cur)
       THEN [st |-> st, log |-> log]
       ELSE dispatchSkipping(IF beh[cur[i]] > 0
                             THEN unsubscribe(st, t, beh[cur[i]])
                             ELSE st,
                             t, i + 1, beh, Append(log, cur[i]))

\* Variant: a handler that throws ends the loop.
RECURSIVE dispatchAborts(_, _, _, _, _)
dispatchAborts(st, t, i, beh, log) ==
    LET cur == IF t \in DOMAIN st.listeners THEN st.listeners[t] ELSE <<>>
    IN IF i > Len(cur)
       THEN [st |-> st, log |-> log]
       ELSE LET h == cur[i]
                b == beh[h]
                j == IF b > 0 THEN IndexOf(cur, b) ELSE 0
            IN IF b = Throws
               THEN [st |-> st, log |-> Append(log, h)]
               ELSE dispatchAborts(IF b > 0 THEN unsubscribe(st, t, b) ELSE st,
                                   t,
                                   IF j # 0 /\ j <= i THEN i ELSE i + 1,
                                   beh,
                                   Append(log, h))

\* The fan-out loop of handleMessage over the (live) Set of one topic: a
\* handler deleted before its turn is skipped, the others keep their order.
RECURSIVE dispatch(_, _, _, _, _)
dispatch(st, t, i, beh, log) ==
    LET cur == IF t \in DOMAIN st.listeners THEN st.listeners[t] ELSE <<>>
    IN IF i > Len(cur)
       THEN [st |-> st, log |-> log]
       ELSE LET h == cur[i]
                b == beh[h]
                j == IF b > 0 THEN IndexOf(cur, b) ELSE 0
            IN dispatch(IF b > 0 THEN unsubscribe(st, t, b) ELSE st,
                        t,
                        IF j # 0 /\ j <= i THEN i ELSE i + 1,
                        beh,
                        Append(log, h))

NoNote == [topic |-> 0, pre |-> <<>>, stale |-> {}, subs |-> <<>>, beh |-> <<>>,
           log |-> <<>>]

notify(st, t, beh) ==
    IF t \notin DOMAIN st.listeners \/ Len(st.listeners[t]) = 0
    THEN [st EXCEPT !.note = [NoNote EXCEPT !.topic = t]]
    ELSE LET d == dispatch(st, t, 1, beh, <<>>)
         IN [d.st EXCEPT !.note = [topic |-> t,
                                   pre |-> st.listeners[t],
                                   stale |-> {p[2] : p \in {q \in st.unsubd: q[1] = t}},
                                   subs |-> st.subs,
                                   beh |-> beh,
                                   log |-> d.log]]

\* Variant: the reply settles the call and leaves its timeout armed.
replyKeepsTimer(st, id, err) ==
    IF id \notin st.pending
    THEN st
    ELSE LET a == [st EXCEPT !.pending = @ \ {id}]
         IN IF err
            THEN RejectCall(a, Owner(st, id), "rpcerror")
            ELSE ResolveCall(a, Owner(st, id))

\* Variant: a reply nobody waits for is taken for a broken connection.
replyUnmatchedIsFatal(st, id, err) ==
    IF id \notin st.pending
    THEN rejectAllPending(st)
    ELSE LET a == [st EXCEPT !.timers = @ \ {id}, !.pending = @ \ {id}]
         IN IF err
            THEN RejectCall(a, Owner(st, id), "rpcerror")
            ELSE ResolveCall(a, Owner(st, id))

\* Variant: a reply settles the oldest pending call, whatever its id.
replySettlesOldest(st, id, err) ==
    IF id \notin st.pending
    THEN st
    ELSE LET old == MinOf(st.pending)
             a == [st EXCEPT !.timers = @ \ {old}, !.pending = @ \ {old}]
         IN IF err
            THEN RejectCall(a, Owner(st, old), "rpcerror")
            ELSE ResolveCall(a, Owner(st, old))

\* The reply branch of handleMessage.
reply(st, id, err) ==
    IF id \notin st.pending
    THEN st
    ELSE LET a == [st EXCEPT !.timers = @ \ {id}, !.pending = @ \ {id}]
         IN IF err
            THEN RejectCall(a, Owner(st, id), "rpcerror")
            ELSE ResolveCall(a, Owner(st, id))

\* Inbound messages: a reply {id, result|error}, a notification {method},
\* or something that is neither (not a string, not JSON, no id and no method).
Reply(id, err) == [kind |-> "reply", id |-> id, err |-> err, topic |-> 0, beh |-> <<>>]
Notification(t, beh) == [kind |-> "note", id |-> 0, err |-> FALSE, topic |-> t, beh |-> beh]
Junk == [kind |-> "junk", id |-> 0, err |-> FALSE, topic |-> 0, beh |-> <<>>]

handleMessage(st, m) ==
    CASE m.kind = "reply" -> reply(st, m.id, m.err)
      [] m.kind = "note" -> notify(st, m.topic, m.beh)
      [] OTHER -> st

\* Settling a connect promise: its continuations become microtasks, in the
\* order they were registered.  A .catch continuation runs on rejection only.
Ready(rx, ok) ==
    LET keep == SelectSeq(rx, LAMBDA r: r.k = "call" \/ ~ok)
    IN [i \in 1..Len(keep) |-> [k |-> keep[i].k, c |-> keep[i].c, ok |-> ok]]

settle(st, p, ok) ==
    IF st.pst[p] # "pending"
    THEN st
    ELSE [st EXCEPT !.pst[p] = IF ok THEN "resolved" ELSE "rejected",
                    !.mq = @ \o Ready(st.reactions[p], ok),
                    !.reactions[p] = <<>>]

\* The handlers connect() installs on the transport it creates (transport s,
\* whose promise is promise s).  They act on the client, whichever transport
\* the client holds by then.
onopen(st, s) == settle([st EXCEPT !.connectPromise = 0], s, TRUE)

onerror(st, s) ==
    IF st.connectPromise # 0
    THEN settle([st EXCEPT !.connectPromise = 0], s, FALSE)
    ELSE st

\* Variant: the close handler leaves retrying to the timer's .catch.
oncloseWithoutRetry(st, s) == rejectAllPending([st EXCEPT !.socket = 0])

onclose(st, s) ==
    LET a == rejectAllPending([st EXCEPT !.socket = 0])
    IN IF ~a.intentionalClose THEN scheduleReconnect(a) ELSE a

\* ---------------------------------------------------- RpcClient: the steps
NewCall == [phase |-> "await", id |-> 0, res |-> 0, rej |-> 0, out |-> "", on |-> 0]

InitRpc ==
    /\ socket = 0
    /\ connectPromise = 0
    /\ nextId = 1
    /\ pending = {}
    /\ listeners = <<>>
    /\ reconnectHandle = FALSE
    /\ intentionalClose = FALSE
    /\ rs = <<>>
    /\ pst = <<>>
    /\ reactions = <<>>
    /\ mq = <<>>
    /\ timers = {}
    /\ calls = <<>>
    /\ alloc = <<>>
    /\ unsubd = {}
    /\ subs = <<>>
    /\ closure = ""
    /\ quiet = FALSE
    /\ note = NoNote
    /\ ev = [n |-> "init", x |-> 0]

\* ------------------------------------------------------ supervisor: state
ReadyTicks == 2      \* the readiness deadline, in retry intervals

NoChild == [state |-> "unspawned", exitCode |-> -1, signalCode |-> "",
            killed |-> FALSE, signals |-> <<>>]

NoOptions == [backendOnly |-> FALSE, frontendOnly |-> FALSE, listenValid |-> TRUE]

InitSupervisor ==
    /\ pc = "parse"
    /\ options = NoOptions
    /\ children = <<>>
    /\ proc = [c \in {"backend", "frontend"} |-> NoChild]
    /\ shuttingDown = FALSE
    /\ remaining = 0
    /\ elapsed = 0
    /\ ready = "none"
    /\ exitStatus = -1
    /\ cause = "none"
    /\ firstSignal = ""

\* ------------------------------------------------------ acquirer: state
\* What stat() of the cache path can find.  "noexec" is a non-empty regular
\* file without execute permission (it exists on non-Windows platforms only).
CacheStates == {"missing", "directory", "empty", "noexec", "valid"}

\* The options and environment of one run:
\*   backendPath  options.backendPath is set
\*   envPath      CODEX_MONITOR_BACKEND_PATH is set
\*   allow        downloading is allowed (option and skip variable)
\*   url          a direct URL or a release base is configured
\*   net          what fetch does: "ok", "http" (non-success response), "error"
\*   inPath       one of the backend names is on the search path
\*   cargo        cargo is on the search path and src-tauri exists
AcqInputs ==
    [backendPath : BOOLEAN, envPath : BOOLEAN, allow : BOOLEAN, url : BOOLEAN,
     net : {"ok", "http", "error"}, inPath : BOOLEAN, cargo : BOOLEAN]

NoInput ==
    [backendPath |-> FALSE, envPath |-> FALSE, allow |-> FALSE, url |-> FALSE,
     net |-> "ok", inPath |-> FALSE, cargo |-> FALSE]

AcqIdle == [pc |-> "idle", in |-> NoInput, result |-> "", did |-> {}, seen |-> ""]

\* The environment of one run of the installer:
\*   skip    CODEX_MONITOR_SKIP_BACKEND_DOWNLOAD=1 or npm_config_ignore_scripts
\*   strict  CODEX_MONITOR_BACKEND_INSTALL_STRICT=1
\*   url     a direct URL, a release base or a repository URL is available
\*   net     what fetch does: "ok", "http" (non-success response), "error"
\*   body    the response body is not empty
InstInputs ==
    [skip : BOOLEAN, strict : BOOLEAN, url : BOOLEAN,
     net : {"ok", "http", "error"}, body : BOOLEAN]

InstIdle ==
    [pc |-> "idle",
     in |-> [skip |-> FALSE, strict |-> FALSE, url |-> FALSE, net |-> "ok",
             body |-> FALSE],
     exit |-> -1, warned |-> FALSE, failure |-> "", did |-> {}]

InitAcquirer ==
    /\ cacheEntry = "missing"
    /\ acq = AcqIdle
    /\ inst = InstIdle

\* ------------------------------------------------------ resolver: state
\* A configured string is absent ("none"), blank, or a value written with or
\* without trailing slashes.
Strings == {"none", "blank", "plain", "slash"}

\* What one evaluation reads:
\*   runtimeApiBase, runtimeRpcUrl, runtimeToken   window.__CODEX_MONITOR_RUNTIME_CONFIG__
\*   envApiBase, envRpcUrl, envToken               import.meta.env.VITE_CODEX_MONITOR_*
\*   origin       window.location: "none", "local" (localhost, 127.0.0.1), "remote"
\*   storedToken  localStorage codex_monitor_token
CfgInputs ==
    [runtimeApiBase : Strings, envApiBase : Strings \ {"blank"},
     origin : {"none", "local", "remote"},
     runtimeRpcUrl : {"none", "blank", "plain"}, envRpcUrl : {"none", "plain"},
     runtimeToken : {"none", "plain"}, envToken : {"none", "plain"},
     storedToken : {"none", "blank", "plain"}]

CfgIdle == [pc |-> "idle", in |-> <<>>, out |-> <<>>]

InitResolver == cfg = CfgIdle

\* ------------------------------------------------------ updater: state
MaxChecks == 2       \* checkForUpdates runs in flight at once
MaxOpens == 1        \* startUpdate runs in flight at once, and their timers

\* A version is the tuple of its numeric parts; <<>> is the empty string.
Tags == {<<>>} \cup {<<a>> : a \in 0..1} \cup {<<a, b>> : a \in 0..1, b \in 1..2}

AppVersion == <<0, 1>>

\* state: stage, version, error.  ref: pendingDownloadUrlRef ("" for null).
\* latestTimeout: latestTimeoutRef is set.  runs: checkForUpdates runs that
\* await the release request, by their announceNoUpdate option.  opening:
\* startUpdate runs that await openExternalUrl.  idleTimers: the 1200 ms
\* timers armed.  debug: the payload of the last updater/error entry handed
\* to onDebug.  opened: the last URL given to openExternalUrl.  last: the
\* last operation.
InitUpdater ==
    upd = [stage |-> "idle", version |-> <<>>, error |-> "", ref |-> "",
           latestTimeout |-> FALSE, runs |-> [a \in BOOLEAN |-> 0], opening |-> 0,
           idleTimers |-> 0, debug |-> "", opened |-> "", last |-> "init"]

\* ------------------------------------------- the download: state
\* Processes that run ensureDownloadedBackend for one (version, platform)
\* entry of one cache directory, and the blocks of the binary.
DlProcs == 2
DlBlocks == 2

\* tmp, target: the file (0: none) at <target>.download and at the cache
\* path.  files: for every file created, the blocks written since it was
\* last truncated.  exec: the files with mode 0755.  p: each process, its
\* position, the file its write stream has open and the blocks it wrote.
InitDownload ==
    dl = [tmp |-> 0, target |-> 0, files |-> <<>>, exec |-> {},
          p |-> [i \in 1..DlProcs |-> [pc |-> "idle", fd |-> 0, off |-> 0]]]

Whole == 1..DlBlocks

\* ------------------------------------------------------ dictation: state
MaxRecognitions == 3  \* recognitions created by startDictationWeb

\* state: controller.state.  recognition: controller.recognition (0: null).
\* recs: every recognition created: whether its handlers are set, and where
\* the browser's recognizer stands: "starting", "running", "stopping"
\* (stop() was called), "failed" (error fired, end is due), "ended".
\* last: the last operation or event, and the recognition it came from.
InitDictation ==
    dict = [state |-> "idle", recognition |-> 0, recs |-> <<>>,
            last |-> [n |-> "init", r |-> 0]]

Init ==
    /\ InitRpc /\ InitSupervisor /\ InitAcquirer /\ InitDownload
    /\ InitResolver /\ InitUpdater /\ InitDictation

\* The step taken is recorded; the record of a dispatch lasts one step.
Step(st, name, x) ==
    Become([st EXCEPT !.ev = [n |-> name, x |-> x],
                      !.note = IF name = "note" THEN @ ELSE NoNote])

\* A macrotask (transport event, timer) starts only when no microtask is left
\* and no close event is owed to a transport that just reported an error.
Idle == mq = <<>> /\ \A s \in 1..Len(rs): rs[s] # "ERRORED"

\* Transports are created up to the bound.
Room(st, maxS) == NeedsTransport(st) => Len(st.rs) < maxS

\* The unsubscribe closure of (t, h) exists once subscribe(t, h) was called.
Issued(t, h) == <<t, h>> \in DOMAIN subs

Connect(maxS) ==
    /\ Room(St, maxS)
    /\ Step([connect(St, NoReaction) EXCEPT !.quiet = FALSE], "connect", 0)

Disconnect ==
    Step([disconnect(St) EXCEPT !.quiet = TRUE], "disconnect", 0)

Call(maxS, maxC) ==
    /\ Len(calls) < maxC
    /\ Room(St, maxS)
    /\ LET c == Len(calls) + 1
       IN Step([connect([St EXCEPT !.calls = Append(@, NewCall)], CallReaction(c))
                   EXCEPT !.quiet = FALSE], "call", c)

CallContinue(throws) ==
    /\ mq # <<>>
    /\ Head(mq).k = "call"
    /\ Step(callContinue([St EXCEPT !.mq = Tail(@)], Head(mq).c, Head(mq).ok, throws),
            "continue", Head(mq).c)

ReconnectCatch ==
    /\ mq # <<>>
    /\ Head(mq).k = "catch"
    /\ Step(scheduleReconnect([St EXCEPT !.mq = Tail(@)]), "catch", 0)

Subscribe(maxS, maxM, t, h) ==
    /\ Room(St, maxS)
    /\ Made(St, t, h) < maxM
    /\ Step([subscribe(St, t, h) EXCEPT !.quiet = FALSE], "subscribe", t)

Unsubscribe(t, h) ==
    /\ Issued(t, h)
    /\ Step(unsubscribe(St, t, h), "unsubscribe", t)

OnOpen(s) ==
    /\ Idle
    /\ rs[s] = "CONNECTING"
    /\ Step(onopen([St EXCEPT !.rs[s] = "OPEN"], s), "open", s)

\* The error event: a failed connection attempt, a failed open connection, or
\* a connecting transport that close() was called on.  The close event follows.
OnError(s) ==
    /\ Idle
    /\ rs[s] \in {"CONNECTING", "OPEN", "CLOSING_FAIL"}
    /\ Step(onerror([St EXCEPT !.rs[s] = "ERRORED"], s), "error", s)

\* The close event: after an error, after close() on an open transport, or
\* when the remote end closes an open transport.
OnClose(s) ==
    /\ mq = <<>>
    /\ \/ rs[s] = "ERRORED"
       \/ Idle /\ rs[s] \in {"OPEN", "CLOSING"}
    /\ Step([onclose([St EXCEPT !.rs[s] = "CLOSED"], s) EXCEPT
                !.closure = IF intentionalClose THEN @
                            ELSE IF DOMAIN listeners # {} \/ pending # {}
                                 THEN "work" ELSE "idle"],
            IF intentionalClose THEN "closed" ELSE "lost", s)

OnMessage(s, m) ==
    /\ Idle
    /\ rs[s] = "OPEN"
    /\ Step(handleMessage(St, m), m.kind, IF m.kind = "note" THEN m.topic ELSE m.id)

CallTimeout(id) ==
    /\ Idle
    /\ id \in timers
    /\ Step(callTimeout(St, id), "timeout", id)

ReconnectTimer(maxS) ==
    /\ Idle
    /\ reconnectHandle
    /\ (DOMAIN listeners # {} \/ pending # {}) => Room(St, maxS)
    /\ Step(reconnectTimer(St), "timer", 0)

\* The behaviours handlers may have: one may unsubscribe only a handler whose
\* unsubscribe closure exists.  A handler that is not subscribed to the topic
\* is not invoked, so its behaviour is left at 0.
Behaviour(t, nH) ==
    {beh \in [1..nH -> Throws..nH]:
        \A h \in 1..nH:
            /\ beh[h] > 0 => Issued(t, beh[h])
            /\ beh[h] # 0 => t \in DOMAIN listeners /\ h \in Range(listeners[t])}

Rpc(maxS, maxC, nT, nH, maxM) ==
    \/ Connect(maxS)
    \/ Disconnect
    \/ Call(maxS, maxC)
    \/ \E throws \in BOOLEAN: CallContinue(throws)
    \/ ReconnectCatch
    \/ \E t \in 1..nT, h \in 1..nH: Subscribe(maxS, maxM, t, h)
    \/ \E t \in 1..nT, h \in 1..nH: Unsubscribe(t, h)
    \/ \E s \in 1..Len(rs): OnOpen(s)
    \/ \E s \in 1..Len(rs): OnError(s)
    \/ \E s \in 1..Len(rs): OnClose(s)
    \/ \E s \in 1..Len(rs), id \in 1..maxC, err \in BOOLEAN: OnMessage(s, Reply(id, err))
    \/ \E s \in 1..Len(rs), t \in 1..nT: \E beh \in Behaviour(t, nH):
          OnMessage(s, Notification(t, beh))
    \/ \E s \in 1..Len(rs): OnMessage(s, Junk)
    \/ \E id \in timers: CallTimeout(id)
    \/ ReconnectTimer(maxS)

NextConn == Rpc(ConnSockets, ConnCalls, ConnTopics, ConnHandlers, ConnSubs)
NextCalls == Rpc(CallSockets, CallCalls, CallTopics, CallHandlers, CallSubs)

\* The subscription side of the client on its own: every step that reads or
\* writes the topic map, and the connection steps they depend on.  No call()
\* is issued, so the steps that only serve calls cannot happen.
NextNote ==
    \/ Connect(NoteSockets)
    \/ Disconnect
    \/ ReconnectCatch
    \/ \E t \in 1..NoteTopics, h \in 1..NoteHandlers: Subscribe(NoteSockets, NoteSubs, t, h)
    \/ \E t \in 1..NoteTopics, h \in 1..NoteHandlers: Unsubscribe(t, h)
    \/ \E s \in 1..Len(rs): OnOpen(s)
    \/ \E s \in 1..Len(rs): OnError(s)
    \/ \E s \in 1..Len(rs): OnClose(s)
    \/ \E s \in 1..Len(rs), t \in 1..NoteTopics: \E beh \in Behaviour(t, NoteHandlers):
          OnMessage(s, Notification(t, beh))
    \/ \E s \in 1..Len(rs): OnMessage(s, Junk)
    \/ ReconnectTimer(NoteSockets)

SpecConn == Init /\ [][NextConn]_vars
SpecCalls == Init /\ [][NextCalls]_vars
SpecNote == Init /\ [][NextNote]_vars

\* What the platform guarantees: promise continuations run, timers fire, and
\* every transport reports: a connecting one opens or fails, a failed one
\* closes, one that close() was called on fails or closes.
Reports(s) ==
    /\ s \in 1..Len(rs)
    /\ \/ rs[s] = "CONNECTING" /\ (OnOpen(s) \/ OnError(s))
       \/ rs[s] = "CLOSING_FAIL" /\ OnError(s)
       \/ rs[s] \in {"ERRORED", "CLOSING"} /\ OnClose(s)

Platform(maxS) ==
    /\ WF_vars(\E throws \in BOOLEAN: CallContinue(throws))
    /\ WF_vars(ReconnectCatch)
    /\ WF_vars(\E id \in timers: CallTimeout(id))
    /\ WF_vars(ReconnectTimer(maxS))
    /\ \A s \in 1..maxS: WF_vars(Reports(s))

\* Transports, calls, topics, handlers and subscribe() calls per handler of
\* the runs that are checked for progress.
LiveSockets == 3
LiveCalls == 1
LiveTopics == 1
LiveHandlers == 1
LiveSubs == 1

NextLive == Rpc(LiveSockets, LiveCalls, LiveTopics, LiveHandlers, LiveSubs)

SpecLive == Init /\ [][NextLive]_vars /\ Platform(LiveSockets)

\* ------------------------------------------------------ supervisor: steps
\* process.exit(code): the supervisor is gone; it handles nothing afterwards.
Exit(code) == pc' = "exited" /\ exitStatus' = code

\* spawnManaged(...): the ChildProcess of a started child.
Spawned == [NoChild EXCEPT !.state = "running"]

\* child.kill(signal) for every child of the list that was not killed before
\* and has not exited; kill() of a process that is gone does nothing.
killChildren(pr, list, sig) ==
    [c \in DOMAIN pr |->
        IF c \in Range(list) /\ ~pr[c].killed /\ pr[c].state = "running"
        THEN [pr[c] EXCEPT !.killed = TRUE, !.signals = Append(@, sig)]
        ELSE pr[c]]

\* How a child may end: with an exit code, or killed by a signal (code null).
Outcomes ==
    {[code |-> k, signal |-> ""] : k \in {0, 1, 3}}
    \cup {[code |-> -1, signal |-> sig] : sig \in {"SIGINT", "SIGTERM"}}

Exited(child, o) ==
    [child EXCEPT !.state = "exited", !.exitCode = o.code, !.signalCode = o.signal]

\* monitor(children): the counters are set and the handlers installed.
Monitor(list) ==
    /\ pc' = "monitor"
    /\ remaining' = Len(list)
    /\ shuttingDown' = FALSE
    /\ exitStatus' = exitStatus

\* A parse failure reported with the status of a runtime failure.
ParseFailsAsRuntime ==
    /\ pc = "parse"
    /\ Exit(1)
    /\ UNCHANGED <<options, children, proc, shuttingDown, remaining, elapsed, ready>>
    /\ cause' = "parse" /\ UNCHANGED firstSignal

\* parseArgs / applyUserConfigDefaults throw: exit status 2.
ParseFails ==
    /\ pc = "parse"
    /\ Exit(2)
    /\ UNCHANGED <<options, children, proc, shuttingDown, remaining, elapsed, ready>>
    /\ cause' = "parse" /\ UNCHANGED firstSignal

\* --help: main() returns without starting anything.
Help ==
    /\ pc = "parse"
    /\ Exit(0)
    /\ UNCHANGED <<options, children, proc, shuttingDown, remaining, elapsed, ready>>
    /\ cause' = "help" /\ UNCHANGED firstSignal

ParseArgs(o) ==
    /\ pc = "parse"
    /\ ~(o.backendOnly /\ o.frontendOnly)
    /\ options' = o
    /\ pc' = "prereqs"
    /\ UNCHANGED <<children, proc, shuttingDown, remaining, elapsed, ready, exitStatus>>
    /\ UNCHANGED <<cause, firstSignal>>

\* ensureFrontendPrereqs throws (status 1), resolveFrontendBind throws (2).
Prereqs(assets, bind) ==
    /\ pc = "prereqs"
    /\ IF ~options.backendOnly /\ ~assets THEN Exit(1)
       ELSE IF ~options.backendOnly /\ ~bind THEN Exit(2)
       ELSE pc' = "start" /\ exitStatus' = exitStatus
    /\ UNCHANGED <<options, children, proc, shuttingDown, remaining, elapsed, ready>>
    /\ cause' = IF options.backendOnly THEN cause
                ELSE IF ~assets THEN "assets"
                ELSE IF ~bind THEN "bind" ELSE cause
    /\ UNCHANGED firstSignal

\* startFrontend(options); children.push(frontendChild); monitor(children).
StartFrontendAndMonitor(pr, list) ==
    /\ proc' = [pr EXCEPT !["frontend"] = Spawned]
    /\ children' = Append(list, "frontend")
    /\ Monitor(Append(list, "frontend"))

\* main() from startBackend to the point where it waits or monitors.
\* resolved: resolveBackendCommand found a command to run.
Start(resolved) ==
    /\ pc = "start"
    /\ IF options.frontendOnly
       THEN /\ StartFrontendAndMonitor(proc, children)
            /\ UNCHANGED <<elapsed, ready>>
       ELSE IF ~resolved
       THEN /\ Exit(1)
            /\ UNCHANGED <<children, proc, shuttingDown, remaining, elapsed, ready>>
       ELSE IF options.backendOnly
       THEN /\ proc' = [proc EXCEPT !["backend"] = Spawned]
            /\ children' = <<"backend">>
            /\ Monitor(<<"backend">>)
            /\ UNCHANGED <<elapsed, ready>>
       ELSE IF ~options.listenValid
       THEN \* waitForBackendReady throws on the listen address
            /\ proc' = [proc EXCEPT !["backend"] = Spawned]
            /\ children' = <<"backend">>
            /\ ready' = "invalid"
            /\ Exit(1)
            /\ UNCHANGED <<shuttingDown, remaining, elapsed>>
       ELSE /\ proc' = [proc EXCEPT !["backend"] = Spawned]
            /\ children' = <<"backend">>
            /\ pc' = "waiting"
            /\ ready' = "probing"
            /\ UNCHANGED <<shuttingDown, remaining, elapsed, exitStatus>>
    /\ UNCHANGED options
    /\ cause' = IF options.frontendOnly THEN cause
                ELSE IF ~resolved THEN "resolve"
                ELSE IF ~options.backendOnly /\ ~options.listenValid THEN "listen"
                ELSE cause
    /\ UNCHANGED firstSignal

\* A catch branch that logs the failure and goes on to start the frontend.
RaceRejectedContinues(pr, why) ==
    /\ ready' = why
    /\ StartFrontendAndMonitor(killChildren(pr, <<"backend">>, "SIGTERM"), children)

\* The catch branch of main() after Promise.race rejected.
RaceRejected(pr, why) ==
    /\ proc' = killChildren(pr, <<"backend">>, "SIGTERM")
    /\ ready' = why
    /\ Exit(1)
    /\ UNCHANGED <<children, shuttingDown, remaining>>

\* Variant: every retry measures the deadline from its own start.
ProbeRetryRestartsClock ==
    /\ pc = "waiting"
    /\ elapsed <= ReadyTicks
    /\ elapsed' = IF elapsed = 0 THEN 1 ELSE 0
    /\ UNCHANGED <<pc, options, children, proc, shuttingDown, remaining, ready,
                   exitStatus>>
    /\ UNCHANGED <<cause, firstSignal>>

\* A probe attempt fails (error or socket timeout): retry after the interval.
ProbeRetry ==
    /\ pc = "waiting"
    /\ elapsed <= ReadyTicks
    /\ elapsed' = elapsed + 1
    /\ UNCHANGED <<pc, options, children, proc, shuttingDown, remaining, ready,
                   exitStatus>>
    /\ UNCHANGED <<cause, firstSignal>>

\* attempt() finds the deadline passed.
ProbeDeadline ==
    /\ pc = "waiting"
    /\ elapsed > ReadyTicks
    /\ RaceRejected(proc, "timeout")
    /\ UNCHANGED <<options, elapsed>>
    /\ cause' = "timeout" /\ UNCHANGED firstSignal

\* A probe attempt connects: the race resolves, the frontend is started.
ProbeConnect ==
    /\ pc = "waiting"
    /\ elapsed <= ReadyTicks
    /\ proc["backend"].state = "running"
    /\ ready' = "ok"
    /\ StartFrontendAndMonitor(proc, children)
    /\ UNCHANGED <<options, elapsed>>
    /\ UNCHANGED <<cause, firstSignal>>

\* A backend exit with code 0 during the wait taken for a normal shutdown.
BackendExitsEarlyCleanly(o) ==
    /\ pc = "waiting"
    /\ proc["backend"].state = "running"
    /\ proc' = [proc EXCEPT !["backend"] = Exited(@, o)]
    /\ ready' = "exited"
    /\ Exit(IF o.code = 0 THEN 0 ELSE 1)
    /\ cause' = "exited"
    /\ UNCHANGED <<options, children, shuttingDown, remaining, elapsed, firstSignal>>

\* A backend exit during the wait reported with the backend's own exit code.
BackendExitsEarlyPropagates(o) ==
    /\ pc = "waiting"
    /\ proc["backend"].state = "running"
    /\ proc' = [proc EXCEPT !["backend"] = Exited(@, o)]
    /\ ready' = "exited"
    /\ Exit(IF o.code # -1 THEN o.code ELSE 1)
    /\ cause' = "exited"
    /\ UNCHANGED <<options, children, shuttingDown, remaining, elapsed, firstSignal>>

\* The backend exits while main() waits: the race rejects.
BackendExitsEarly(o) ==
    /\ pc = "waiting"
    /\ proc["backend"].state = "running"
    /\ RaceRejected([proc EXCEPT !["backend"] = Exited(@, o)], "exited")
    /\ UNCHANGED <<options, elapsed>>
    /\ cause' = "exited" /\ UNCHANGED firstSignal

\* SIGINT/SIGTERM before monitor() installed its handlers: the default
\* disposition ends the supervisor; it signals nobody.
SignalNumber(sig) == IF sig = "SIGINT" THEN 2 ELSE 15

SignalUnhandled(sig) ==
    /\ pc \in {"prereqs", "start", "waiting"}
    /\ Exit(128 + SignalNumber(sig))
    /\ UNCHANGED <<options, children, proc, shuttingDown, remaining, elapsed, ready>>
    /\ cause' = "signal" /\ firstSignal' = sig

\* monitor(): shutdown(signal).
shutdown(pr, sd, list, sig) == IF sd THEN pr ELSE killChildren(pr, list, sig)

Signal(sig) ==
    /\ pc = "monitor"
    /\ proc' = shutdown(proc, shuttingDown, children, sig)
    /\ shuttingDown' = TRUE
    /\ UNCHANGED <<pc, options, children, remaining, elapsed, ready, exitStatus>>
    /\ firstSignal' = IF firstSignal = "" THEN sig ELSE firstSignal
    /\ UNCHANGED cause

\* monitor(): the exit handler of a child.
ChildExit(c, o) ==
    /\ pc = "monitor"
    /\ c \in Range(children)
    /\ proc[c].state = "running"
    /\ remaining' = remaining - 1
    /\ LET pr == [proc EXCEPT ![c] = Exited(@, o)]
       IN IF ~shuttingDown /\ (o.code # 0 \/ o.signal # "")
          THEN /\ proc' = shutdown(pr, FALSE, children, "SIGTERM")
               /\ shuttingDown' = TRUE
               /\ Exit(IF o.code # -1 THEN o.code ELSE 1)
          ELSE /\ proc' = pr
               /\ shuttingDown' = shuttingDown
               /\ IF remaining - 1 = 0
                  THEN Exit(0)
                  ELSE pc' = pc /\ exitStatus' = exitStatus
    /\ UNCHANGED <<options, children, elapsed, ready>>
    /\ cause' = IF ~shuttingDown /\ (o.code # 0 \/ o.signal # "") THEN "child"
                ELSE IF remaining - 1 = 0 THEN "done" ELSE cause
    /\ UNCHANGED firstSignal

OptionSets ==
    [backendOnly : BOOLEAN, frontendOnly : BOOLEAN, listenValid : BOOLEAN]

NextSupervisor ==
    \/ ParseFails
    \/ Help
    \/ \E o \in OptionSets: ParseArgs(o)
    \/ \E assets \in BOOLEAN, bind \in BOOLEAN: Prereqs(assets, bind)
    \/ \E resolved \in BOOLEAN: Start(resolved)
    \/ ProbeRetry
    \/ ProbeDeadline
    \/ ProbeConnect
    \/ \E o \in Outcomes: BackendExitsEarly(o)
    \/ \E sig \in {"SIGINT", "SIGTERM"}: SignalUnhandled(sig)
    \/ \E sig \in {"SIGINT", "SIGTERM"}: Signal(sig)
    \/ \E c \in {"backend", "frontend"}, o \in Outcomes: ChildExit(c, o)

NextSup == NextSupervisor /\ UNCHANGED <<rpcVars, acqVars, uiVars>>

SpecSup == Init /\ [][NextSup]_vars

\* waitForBackendReady keeps going: every attempt ends (connect, error or the
\* 1000 ms socket timeout) and the retry timer fires.
Probe ==
    /\ ProbeRetry \/ ProbeDeadline \/ ProbeConnect
    /\ UNCHANGED <<rpcVars, acqVars, uiVars>>

SpecSupLive == SpecSup /\ WF_vars(Probe)

\* ------------------------------------------------------ acquirer: steps
\* The result of a run is named after the source it comes from: "explicit",
\* "env", "cache", "download", "path", "cargo"; "none" is the null result and
\* "throws" a rejected promise.  did collects what the run touched.
Returns(a, what) == [a EXCEPT !.pc = "done", !.result = what]

\* ensureDownloadedBackend: info.isFile() && info.size > 0.
cacheAccepted(c) == c \in {"noexec", "valid"}

\* resolveBackendCommand after ensureDownloadedBackend returned null: the
\* search path, then cargo run in src-tauri.
lookup(a) ==
    Returns([a EXCEPT !.did = @ \cup {"path"}],
            IF a.in.inPath THEN "path" ELSE IF a.in.cargo THEN "cargo" ELSE "none")

\* A resolution that looks into the cache before anything else.
AcqBeginStatsFirst(in) ==
    /\ acq.pc = "idle"
    /\ acq' = [acq EXCEPT !.pc = "stat", !.in = in]
    /\ UNCHANGED cacheEntry
    /\ UNCHANGED inst

\* A cache check that fetches again whenever a download is possible.
AcqStatRefetches ==
    /\ acq.pc = "stat"
    /\ LET a == [acq EXCEPT !.did = @ \cup {"cache"}, !.seen = cacheEntry]
       IN acq' = IF a.in.allow /\ a.in.url THEN [a EXCEPT !.pc = "fetch"]
                 ELSE IF cacheAccepted(cacheEntry) THEN Returns(a, "cache")
                 ELSE lookup(a)
    /\ UNCHANGED <<cacheEntry, inst>>

\* resolveBackendCommand up to the call of ensureDownloadedBackend.
AcqBegin(in) ==
    /\ acq.pc = "idle"
    /\ acq' = IF in.backendPath THEN Returns([acq EXCEPT !.in = in], "explicit")
              ELSE IF in.envPath THEN Returns([acq EXCEPT !.in = in], "env")
              ELSE [acq EXCEPT !.pc = "stat", !.in = in]
    /\ UNCHANGED cacheEntry
    /\ UNCHANGED inst

\* A cache check that downloads whenever a URL is configured.
AcqStatIgnoresPermission ==
    /\ acq.pc = "stat"
    /\ LET a == [acq EXCEPT !.did = @ \cup {"cache"}, !.seen = cacheEntry]
       IN acq' = IF cacheAccepted(cacheEntry) THEN Returns(a, "cache")
                 ELSE IF ~a.in.url THEN lookup(a)
                 ELSE [a EXCEPT !.pc = "fetch"]
    /\ UNCHANGED cacheEntry
    /\ UNCHANGED inst

\* ensureDownloadedBackend from stat(targetPath) to the fetch.
AcqStat ==
    /\ acq.pc = "stat"
    /\ LET a == [acq EXCEPT !.did = @ \cup {"cache"}, !.seen = cacheEntry]
       IN acq' = IF cacheAccepted(cacheEntry) THEN Returns(a, "cache")
                 ELSE IF ~a.in.allow \/ ~a.in.url THEN lookup(a)
                 ELSE [a EXCEPT !.pc = "fetch"]
    /\ UNCHANGED cacheEntry
    /\ UNCHANGED inst

\* ensureDownloadedBackend from the fetch on: a failed fetch, a non-success
\* response or a failing rename throws; otherwise the file is in place.
AcqFetch ==
    /\ acq.pc = "fetch"
    /\ LET a == [acq EXCEPT !.did = @ \cup {"download"}]
       IN IF a.in.net = "ok" /\ cacheEntry # "directory"
          THEN acq' = Returns(a, "download") /\ cacheEntry' = "valid"
          ELSE acq' = Returns(a, "throws") /\ UNCHANGED cacheEntry
    /\ UNCHANGED inst

\* The run is over; the next run of the program starts afresh.
AcqEnd ==
    /\ acq.pc = "done"
    /\ acq' = AcqIdle
    /\ UNCHANGED cacheEntry
    /\ UNCHANGED inst

\* Between runs the file at the cache path is whatever the installer or the
\* user left there.
CacheTouched(c) ==
    /\ acq.pc = "idle"
    /\ inst.pc = "idle"
    /\ c # cacheEntry
    /\ cacheEntry' = c
    /\ UNCHANGED <<acq, inst>>

NextAcquirer ==
    \/ \E in \in AcqInputs: AcqBegin(in)
    \/ AcqStat
    \/ AcqFetch
    \/ AcqEnd
    \/ \E c \in CacheStates: CacheTouched(c)

NextAcq == NextAcquirer /\ UNCHANGED <<rpcVars, supVars, uiVars, dl>>

SpecAcq == Init /\ [][NextAcq]_vars

\* ------------------------------------------------------ installer: steps
\* main() returns: exit status 0.
InstReturns(i) == [i EXCEPT !.pc = "done", !.exit = 0]

\* An install step for which every failure is fatal.
InstFailsHard(i, why) == [i EXCEPT !.pc = "done", !.exit = 1, !.failure = why]

\* A failure of the install step: thrown under strict mode (main().catch
\* exits with status 1), a warning and a return otherwise.
InstFails(i, why) ==
    IF i.in.strict
    THEN [i EXCEPT !.pc = "done", !.exit = 1, !.failure = why]
    ELSE [i EXCEPT !.pc = "done", !.exit = 0, !.failure = why, !.warned = TRUE]

\* ensureExecutableExists: a non-empty regular file that is executable.
ensureExecutableExists(c) == c = "valid"

\* main(): shouldSkipDownload.
InstBegin(in) ==
    /\ inst.pc = "idle"
    /\ acq.pc = "idle"
    /\ inst' = IF in.skip THEN InstReturns([inst EXCEPT !.in = in])
               ELSE [inst EXCEPT !.in = in, !.pc = "check"]
    /\ UNCHANGED <<cacheEntry, acq>>

\* main(): the file is there already; else the download URL is derived.
InstCheck ==
    /\ inst.pc = "check"
    /\ inst' = IF ensureExecutableExists(cacheEntry) THEN InstReturns(inst)
               ELSE IF ~inst.in.url THEN InstFails(inst, "nourl")
               ELSE [inst EXCEPT !.pc = "download"]
    /\ UNCHANGED <<cacheEntry, acq>>

\* main(): downloadFile in its try/catch.
InstDownload ==
    /\ inst.pc = "download"
    /\ LET i == [inst EXCEPT !.did = @ \cup {"download"}]
       IN IF i.in.net = "ok" /\ cacheEntry # "directory"
          THEN /\ cacheEntry' = IF i.in.body THEN "valid" ELSE "empty"
               /\ inst' = [i EXCEPT !.pc = "verify"]
          ELSE /\ inst' = InstFails(i, "download")
               /\ UNCHANGED cacheEntry
    /\ UNCHANGED acq

\* main(): the check after the download.
InstVerify ==
    /\ inst.pc = "verify"
    /\ inst' = IF ensureExecutableExists(cacheEntry) THEN InstReturns(inst)
               ELSE InstFails(inst, "notexec")
    /\ UNCHANGED <<cacheEntry, acq>>

InstEnd ==
    /\ inst.pc = "done"
    /\ inst' = InstIdle
    /\ UNCHANGED <<cacheEntry, acq>>

NextInstaller ==
    \/ \E in \in InstInputs: InstBegin(in)
    \/ InstCheck
    \/ InstDownload
    \/ InstVerify
    \/ InstEnd
    \/ \E c \in CacheStates: CacheTouched(c)

NextInst == NextInstaller /\ UNCHANGED <<rpcVars, supVars, uiVars, dl>>

SpecInst == Init /\ [][NextInst]_vars

\* ------------------------------------------- the download, step by step
\* stat(targetPath): a file of size > 0 is returned as the command.
DlStat(i) ==
    /\ dl.p[i].pc = "idle"
    /\ dl' = [dl EXCEPT !.p[i].pc =
                 IF dl.target # 0 /\ dl.files[dl.target] # {}
                 THEN "cached" ELSE "fetch"]

\* fetch(downloadUrl): a response that is not ok throws.
DlFetch(i, ok) ==
    /\ dl.p[i].pc = "fetch"
    /\ dl' = [dl EXCEPT !.p[i].pc = IF ok THEN "open" ELSE "failed"]

\* createWriteStream(tmpPath) opens the path with flag "w": the file is
\* created, or the file that is there is truncated.
DlOpen(i) ==
    /\ dl.p[i].pc = "open"
    /\ IF dl.tmp = 0
       THEN dl' = [dl EXCEPT !.files = Append(@, {}),
                             !.tmp = Len(dl.files) + 1,
                             !.p[i] = [pc |-> "write", fd |-> Len(dl.files) + 1,
                                       off |-> 0]]
       ELSE dl' = [dl EXCEPT !.files[dl.tmp] = {},
                             !.p[i] = [pc |-> "write", fd |-> dl.tmp, off |-> 0]]

\* pipeline(...): the stream writes the next block at its own position.
DlWrite(i) ==
    /\ dl.p[i].pc = "write"
    /\ dl.p[i].off < DlBlocks
    /\ dl' = [dl EXCEPT !.files[dl.p[i].fd] = @ \cup {dl.p[i].off + 1},
                        !.p[i].off = @ + 1]

\* pipeline(...) rejects: the body stream fails midway.
DlAbort(i) ==
    /\ dl.p[i].pc = "write"
    /\ dl.p[i].off < DlBlocks
    /\ dl' = [dl EXCEPT !.p[i].pc = "failed"]

\* rename(tmpPath, targetPath); it throws when tmpPath is gone.
DlRename(i) ==
    /\ dl.p[i].pc = "write"
    /\ dl.p[i].off = DlBlocks
    /\ IF dl.tmp = 0
       THEN dl' = [dl EXCEPT !.p[i].pc = "failed"]
       ELSE dl' = [dl EXCEPT !.target = dl.tmp, !.tmp = 0, !.p[i].pc = "chmod"]

\* chmod(targetPath, 0o755).
DlChmod(i) ==
    /\ dl.p[i].pc = "chmod"
    /\ dl' = [dl EXCEPT !.exec = @ \cup {dl.target}, !.p[i].pc = "done"]

NextDownload ==
    \E i \in 1..DlProcs:
        \/ DlStat(i)
        \/ \E ok \in BOOLEAN: DlFetch(i, ok)
        \/ DlOpen(i)
        \/ DlWrite(i)
        \/ DlAbort(i)
        \/ DlRename(i)
        \/ DlChmod(i)

NextDl == NextDownload /\ UNCHANGED <<rpcVars, supVars, uiVars, cacheEntry, acq, inst>>

SpecDl == Init /\ [][NextDl]_vars

\* ------------------------------------------------------ resolver: steps
\* normalizeOptionalString / trim: a blank string counts as absent.
normalizeOptionalString(x) == IF x \in {"none", "blank"} THEN "none" ELSE x

\* A resolved value: the source it was taken from and whether it still ends
\* with a slash.
Value(from, x) == [from |-> from, slash |-> x = "slash"]

trimTrailingSlash(v) == [v EXCEPT !.slash = FALSE]

\* An address resolution that prefers the build-time environment.
resolveApiBaseEnvFirst(in) ==
    IF normalizeOptionalString(in.envApiBase) # "none"
    THEN trimTrailingSlash(Value("env", in.envApiBase))
    ELSE IF normalizeOptionalString(in.runtimeApiBase) # "none"
    THEN trimTrailingSlash(Value("runtime", in.runtimeApiBase))
    ELSE IF in.origin = "remote" THEN Value("origin", "plain")
    ELSE Value("default", "plain")

resolveApiBase(in) ==
    IF normalizeOptionalString(in.runtimeApiBase) # "none"
    THEN trimTrailingSlash(Value("runtime", in.runtimeApiBase))
    ELSE IF normalizeOptionalString(in.envApiBase) # "none"
    THEN trimTrailingSlash(Value("env", in.envApiBase))
    ELSE IF in.origin = "remote" THEN trimTrailingSlash(Value("origin", "plain"))
    ELSE Value("default", "plain")

\* The transport URL: given as such, or the address with ws for http and
\* /rpc appended.
resolveRpcUrl(in, apiBase) ==
    IF normalizeOptionalString(in.runtimeRpcUrl) # "none" THEN [from |-> "runtime"]
    ELSE IF normalizeOptionalString(in.envRpcUrl) # "none" THEN [from |-> "env"]
    ELSE [from |-> "derived", base |-> apiBase]

resolveToken(in) ==
    IF normalizeOptionalString(in.runtimeToken) # "none" THEN "runtime"
    ELSE IF normalizeOptionalString(in.envToken) # "none" THEN "env"
    ELSE IF in.origin = "none" THEN "null"
    ELSE IF normalizeOptionalString(in.storedToken) # "none" THEN "stored"
    ELSE "null"

getBackendConfig(in) ==
    [apiBase |-> resolveApiBase(in),
     rpcUrl |-> resolveRpcUrl(in, resolveApiBase(in)),
     token |-> resolveToken(in)]

GetBackendConfig(in) ==
    /\ cfg.pc = "idle"
    /\ cfg' = [pc |-> "done", in |-> in, out |-> getBackendConfig(in)]
    /\ UNCHANGED upd

CfgEnd ==
    /\ cfg.pc = "done"
    /\ cfg' = CfgIdle
    /\ UNCHANGED upd

NextResolver ==
    \/ \E in \in CfgInputs: GetBackendConfig(in)
    \/ CfgEnd

NextCfg == NextResolver /\ UNCHANGED <<rpcVars, supVars, acqVars, dict>>

SpecCfg == Init /\ [][NextCfg]_vars

\* ------------------------------------------------------ updater: steps
\* setState(next): the whole state is replaced.
SetState(u, stage, version, error) ==
    [u EXCEPT !.stage = stage, !.version = version, !.error = error]

Part(v, i) == IF i <= Len(v) THEN v[i] ELSE 0

Longest(l, r) == IF Len(l) >= Len(r) THEN Len(l) ELSE Len(r)

\* isNewerVersion: the first differing part decides, missing parts count 0.
isNewerVersion(candidate, current) ==
    \E i \in 1..Longest(candidate, current):
        /\ Part(candidate, i) > Part(current, i)
        /\ \A j \in 1..(i - 1): Part(candidate, j) = Part(current, j)

hasUpdate(next, current) ==
    IF next # <<>> /\ current # <<>> THEN isNewerVersion(next, current)
    ELSE next # <<>> /\ next # current

\* releaseDownloadUrl(payload.html_url)
releaseDownloadUrl(configured, html) ==
    IF configured THEN "configured" ELSE IF html THEN "release" ELSE "default"

\* What the release request can come to: fetch rejects, a non-success status,
\* a body that is not JSON, or a release with tag_name and html_url.
Responses ==
    {[kind |-> k, tag |-> <<>>, html |-> FALSE, configured |-> FALSE] :
        k \in {"reject", "http", "badjson"}}
    \cup [kind : {"ok"}, tag : Tags, html : BOOLEAN, configured : BOOLEAN]

\* The catch branch: the entry for onDebug, then the error state.
Fails(u, message) ==
    [SetState(u, "error", <<>>, message) EXCEPT !.debug = message]

\* A catch branch that records the entry and leaves the state as it is.
checkSettlesSilently(u, announce, resp) ==
    LET v == [u EXCEPT !.runs[announce] = @ - 1, !.last = "settled"]
    IN IF resp.kind # "ok" THEN [v EXCEPT !.debug = resp.kind]
       ELSE IF ~hasUpdate(resp.tag, AppVersion)
       THEN IF announce
            THEN [SetState(v, "latest", <<>>, "") EXCEPT !.latestTimeout = TRUE]
            ELSE SetState(v, "idle", <<>>, "")
       ELSE [SetState(v, "available", resp.tag, "") EXCEPT
                !.ref = releaseDownloadUrl(resp.configured, resp.html)]

\* checkForUpdates up to the release request.
checkStarts(u, announce) ==
    [SetState(u, "checking", <<>>, "") EXCEPT
        !.latestTimeout = FALSE, !.runs[announce] = @ + 1, !.last = "check"]

\* checkForUpdates from the answer of the release request on.
checkSettles(u, announce, resp) ==
    LET v == [u EXCEPT !.runs[announce] = @ - 1, !.last = "settled"]
    IN IF resp.kind # "ok" THEN Fails(v, resp.kind)
       ELSE IF ~hasUpdate(resp.tag, AppVersion)
       THEN IF announce
            THEN [SetState(v, "latest", <<>>, "") EXCEPT !.latestTimeout = TRUE]
            ELSE SetState(v, "idle", <<>>, "")
       ELSE [SetState(v, "available", resp.tag, "") EXCEPT
                !.ref = releaseDownloadUrl(resp.configured, resp.html)]

InFlight(u) == u.runs[TRUE] + u.runs[FALSE]

CheckForUpdates(announce) ==
    /\ InFlight(upd) < MaxChecks
    /\ upd' = checkStarts(upd, announce)
    /\ UNCHANGED cfg

CheckSettles(announce, resp) ==
    /\ upd.runs[announce] > 0
    /\ upd' = checkSettles(upd, announce, resp)
    /\ UNCHANGED cfg

\* The timer of the "latest" toast.
LatestTimeout ==
    /\ upd.latestTimeout
    /\ upd' = [SetState(upd, "idle", <<>>, "") EXCEPT
                  !.latestTimeout = FALSE, !.last = "latestTimer"]
    /\ UNCHANGED cfg

\* dismiss: resetToIdle.
Dismiss ==
    /\ upd' = [SetState(upd, "idle", <<>>, "") EXCEPT
                  !.latestTimeout = FALSE, !.ref = "", !.last = "dismiss"]
    /\ UNCHANGED cfg

\* startUpdate up to openExternalUrl; without a stored URL it is a check.
StartUpdate ==
    /\ IF upd.ref = ""
       THEN /\ InFlight(upd) < MaxChecks
            /\ upd' = [checkStarts(upd, FALSE) EXCEPT !.last = "startUpdate"]
       ELSE /\ upd.opening < MaxOpens
            /\ upd' = [upd EXCEPT !.stage = "restarting", !.opened = upd.ref,
                                  !.opening = @ + 1, !.last = "startUpdate"]
    /\ UNCHANGED cfg

\* startUpdate after openExternalUrl settled.
OpenSettles(ok) ==
    /\ upd.opening > 0
    /\ IF ok
       THEN /\ upd.idleTimers < MaxOpens
            /\ upd' = [upd EXCEPT !.opening = @ - 1, !.idleTimers = @ + 1,
                                  !.last = "opened"]
       ELSE upd' = [upd EXCEPT !.opening = @ - 1, !.stage = "error",
                               !.error = "open", !.debug = "open",
                               !.last = "opened"]
    /\ UNCHANGED cfg

\* The 1200 ms timer armed after the URL was opened.
IdleTimer ==
    /\ upd.idleTimers > 0
    /\ upd' = [SetState(upd, "idle", <<>>, "") EXCEPT
                  !.idleTimers = @ - 1, !.last = "idleTimer"]
    /\ UNCHANGED cfg

NextUpdater ==
    \/ \E announce \in BOOLEAN: CheckForUpdates(announce)
    \/ \E announce \in BOOLEAN, resp \in Responses: CheckSettles(announce, resp)
    \/ LatestTimeout
    \/ Dismiss
    \/ StartUpdate
    \/ \E ok \in BOOLEAN: OpenSettles(ok)
    \/ IdleTimer

NextUpd == NextUpdater /\ UNCHANGED <<rpcVars, supVars, acqVars, dict>>

SpecUpd == Init /\ [][NextUpd]_vars

\* ============================================ properties of the session client
Settled(c) == calls[c].res + calls[c].rej

\* ------------------------------------------------------ dictation: steps
\* recognition.stop(): a recognizer that is starting or running winds down.
Stopped(e) == IF e \in {"starting", "running"} THEN "stopping" ELSE e

\* stopRecognition(): the held recognition loses its handlers and is stopped.
stopRecognition(d) ==
    IF d.recognition = 0
    THEN d
    ELSE [d EXCEPT !.recs[d.recognition] =
                        [attached |-> FALSE, eng |-> Stopped(@.eng)],
                   !.recognition = 0]

Did(d, name, r) == [d EXCEPT !.last = [n |-> name, r |-> r]]

\* startDictationWeb(preferredLanguage); supported: the browser has a
\* SpeechRecognition constructor.
StartDictationWeb(supported) ==
    /\ Len(dict.recs) < MaxRecognitions
    /\ dict' = IF ~supported
               THEN Did(dict, "start", 0)
               ELSE LET d == stopRecognition(dict)
                        r == Len(d.recs) + 1
                    IN Did([d EXCEPT !.recs = Append(@, [attached |-> TRUE,
                                                         eng |-> "starting"]),
                                     !.recognition = r,
                                     !.state = "listening"], "start", r)

StopDictationWeb ==
    dict' = IF dict.recognition # 0
            THEN Did(stopRecognition([dict EXCEPT !.state = "processing"]),
                     "stop", dict.recognition)
            ELSE Did(dict, "stop", 0)

CancelDictationWeb ==
    dict' = Did([stopRecognition(dict) EXCEPT !.state = "idle"],
                "cancel", dict.recognition)

\* The browser's events of recognition r; a handler runs only while set.
OnStart(r) ==
    /\ dict.recs[r].eng = "starting"
    /\ LET d == [dict EXCEPT !.recs[r].eng = "running"]
       IN dict' = Did(IF dict.recs[r].attached
                      THEN [d EXCEPT !.state = "listening"] ELSE d, "onstart", r)

OnResult(r) ==
    /\ dict.recs[r].eng \in {"running", "stopping"}
    /\ dict' = Did(dict, "onresult", r)

OnRecognitionError(r) ==
    /\ dict.recs[r].eng \in {"starting", "running", "stopping"}
    /\ LET d == [dict EXCEPT !.recs[r].eng = "failed"]
       IN dict' = Did(IF dict.recs[r].attached
                      THEN [d EXCEPT !.state = "idle"] ELSE d, "onerror", r)

OnEnd(r) ==
    /\ dict.recs[r].eng \in {"running", "stopping", "failed"}
    /\ LET d == [dict EXCEPT !.recs[r].eng = "ended"]
       IN dict' = Did(IF dict.recs[r].attached
                      THEN [d EXCEPT !.state = "idle",
                                     !.recognition = IF @ = r THEN 0 ELSE @]
                      ELSE d, "onend", r)

NextDictation ==
    \/ \E supported \in BOOLEAN: StartDictationWeb(supported)
    \/ StopDictationWeb
    \/ CancelDictationWeb
    \/ \E r \in 1..Len(dict.recs): OnStart(r)
    \/ \E r \in 1..Len(dict.recs): OnResult(r)
    \/ \E r \in 1..Len(dict.recs): OnRecognitionError(r)
    \/ \E r \in 1..Len(dict.recs): OnEnd(r)

NextDict == NextDictation /\ UNCHANGED <<rpcVars, supVars, acqVars, cfg, upd>>

\* The recognizer of the browser keeps going: a recognition that is starting
\* starts or fails, one that was stopped or has failed ends.
Winds(r) ==
    /\ r \in 1..Len(dict.recs)
    /\ \/ dict.recs[r].eng = "starting" /\ (OnStart(r) \/ OnRecognitionError(r))
       \/ dict.recs[r].eng \in {"stopping", "failed"} /\ OnEnd(r)
    /\ UNCHANGED <<rpcVars, supVars, acqVars, cfg, upd>>

SpecDict ==
    /\ Init /\ [][NextDict]_vars
    /\ \A r \in 1..MaxRecognitions: WF_vars(Winds(r))

\* C1: every call() promise settles exactly once: whatever the interleaving of
\* replies (matching, duplicate, late), timeouts, transport closes and send
\* failures, resolve and reject are invoked at most once in total for a call,
\* and a call is settled exactly when one of them was.
C1_SettlesOnce ==
    \A c \in 1..Len(calls):
        /\ Settled(c) <= 1
        /\ (calls[c].phase = "settled") <=> (Settled(c) = 1)
        /\ (calls[c].out = "result") <=> (calls[c].res = 1)

\* A reply arrives for a call that was already rejected by a send failure.
C1_Witness ==
    \E c \in 1..Len(calls):
        /\ calls[c].out = "send"
        /\ ev = [n |-> "reply", x |-> calls[c].id]
        /\ \E d \in 1..Len(calls): calls[d].out = "result"

\* C2: an unexpected close rejects every call pending at that instant exactly
\* once with the disconnection error, leaves the pending map empty and no call
\* timer armed, and a call rejected that way is never settled again.
C2_CloseRejectsPending ==
    [][/\ ev'.n = "lost" =>
            /\ \A id \in pending:
                  LET c == Owner(St, id)
                  IN /\ Settled(c) = 0
                     /\ calls'[c] = [calls[c] EXCEPT !.rej = 1, !.phase = "settled",
                                                     !.out = "disconnected"]
            /\ pending' = {}
            /\ timers' = {}
       /\ \A c \in 1..Len(calls):
              calls[c].out = "disconnected" => calls'[c] = calls[c]
      ]_vars

\* Two calls were pending when the transport was lost.
C2_Witness ==
    /\ ev.n = "lost"
    /\ Len(calls) = 2
    /\ \A c \in 1..2: calls[c].out = "disconnected" /\ calls[c].id # 0

Connected == socket # 0 /\ rs[socket] = "OPEN"
Work == DOMAIN listeners # {} \/ pending # {}

C4_NoReconnectAfterDisconnect ==
    [][quiet' => /\ ~reconnectHandle'
                 /\ intentionalClose'
                 /\ quiet => Len(rs') = Len(rs)
      ]_vars

\* disconnect() was called while a timer-initiated attempt was in flight, and
\* the attempt's failure handler has run.
C4_Witness == quiet /\ ev.n = "catch"

\* C5 as stated: connect() creates no transport while one is connecting or
\* open, so at most one transport of the client is connecting or open.
Live == {s \in 1..Len(rs): rs[s] \in {"CONNECTING", "OPEN"}}

C5_OneConnectionAttempt == Cardinality(Live) <= 1

\* C6: call identifiers are strictly increasing over the life of the client,
\* and an identifier is never allocated while a call with it is pending.
C6_IdsIncrease ==
    [][IF alloc' # alloc
       THEN /\ Len(alloc') = Len(alloc) + 1
            /\ SubSeq(alloc', 1, Len(alloc)) = alloc
            /\ alloc'[Len(alloc')] \notin pending
            /\ \A i \in 1..Len(alloc): alloc[i] < alloc'[Len(alloc')]
       ELSE TRUE
      ]_vars

\* The second identifier was allocated on a new transport after the first call
\* had been rejected by a disconnect.
C6_Witness ==
    /\ Len(alloc) = 2
    /\ Len(rs) = 2
    /\ calls[1].out = "disconnected"
    /\ calls[2].phase = "sent"

\* C7: when a call's timeout fires the call is rejected with the timeout error
\* and its pending entry removed; a reply with that id (or any id that is not
\* pending) that arrives later settles nothing and changes no pending call.
C7_TimeoutThenLateReply ==
    [][/\ ev'.n = "timeout" =>
            LET c == Owner(St, ev'.x)
            IN /\ calls'[c] = [calls[c] EXCEPT !.rej = 1, !.phase = "settled",
                                               !.out = "timeout"]
               /\ Settled(c) = 0
               /\ pending' = pending \ {ev'.x}
               /\ timers' = timers \ {ev'.x}
       /\ (ev'.n = "reply" /\ ev'.x \notin pending) =>
            UNCHANGED <<calls, pending, timers, listeners, socket>>
      ]_vars

\* A reply arrives for a call that timed out, while another call is pending.
C7_Witness ==
    \E c \in 1..Len(calls):
        /\ calls[c].out = "timeout"
        /\ ev = [n |-> "reply", x |-> calls[c].id]
        /\ pending # {}

\* C8: a notification invokes the handlers subscribed to its topic in
\* registration order, each at most once and each one unless a handler invoked
\* before it unsubscribed it; a handler whose unsubscribe was called (before
\* or during the dispatch) and that was not subscribed again is not invoked.
Before(seq, a, b) == IndexOf(seq, a) < IndexOf(seq, b)

C8_FanOut ==
    note.topic # 0 =>
        /\ \A i \in 1..Len(note.log): note.log[i] \in Range(note.pre)
        /\ \A i, j \in 1..Len(note.log):
               i < j => Before(note.pre, note.log[i], note.log[j])
        /\ \A h \in Range(note.pre):
               \/ h \in Range(note.log)
               \/ \E g \in Range(note.log): note.beh[g] = h /\ g # h
        /\ \A i, j \in 1..Len(note.log):
               j < i => note.beh[note.log[j]] # note.log[i]
        /\ Range(note.log) \cap note.stale = {}

\* The first of two subscribed handlers unsubscribed the second one during
\* the dispatch, and the second one was not invoked.
C8_Witness ==
    /\ note.topic # 0
    /\ Len(note.pre) = 2
    /\ note.log = <<note.pre[1]>>
    /\ note.beh[note.pre[1]] = note.pre[2]

Times(seq, x) == Cardinality({i \in 1..Len(seq): seq[i] = x})

\* The handler was subscribed twice to the topic and one unsubscribe function
\* was called after that.
TwiceThenOnce(h) ==
    /\ <<note.topic, h>> \in DOMAIN note.subs
    /\ note.subs[<<note.topic, h>>] = [made |-> 2, spent |-> 1]
    /\ h \in note.stale

\* The handler was subscribed twice to the topic and never unsubscribed.
TwiceNever(h) ==
    /\ <<note.topic, h>> \in DOMAIN note.subs
    /\ note.subs[<<note.topic, h>>] = [made |-> 2, spent |-> 0]

\* C9 as stated: a handler subscribed twice to one topic, one of the two
\* unsubscribe functions then called, is invoked once by a notification.
C9_TwiceSubscribedOnceUnsubscribed ==
    \A h \in 1..NoteHandlers:
        (note.topic # 0 /\ TwiceThenOnce(h)) => Times(note.log, h) = 1

\* C9 amended: a handler subscribed twice to one topic is stored once: a
\* notification invokes it once (unless another handler unsubscribes it first
\* during the dispatch), and after one of the two unsubscribe functions is
\* called a notification does not invoke it at all.
C9_StoredOnce ==
    \A h \in 1..NoteHandlers:
        /\ (note.topic # 0 /\ TwiceThenOnce(h)) => Times(note.log, h) = 0
        /\ (note.topic # 0 /\ TwiceNever(h)) =>
               /\ Times(note.pre, h) = 1
               /\ Times(note.log, h) <= 1
               /\ (\A g \in Range(note.pre): note.beh[g] # h) => Times(note.log, h) = 1

\* A notification was dispatched to another handler while the handler that was
\* subscribed twice and unsubscribed once was left out.
C9_Witness ==
    /\ note.topic # 0
    /\ Len(note.log) = 1
    /\ \E h \in 1..NoteHandlers: TwiceThenOnce(h)

\* ================================================ properties of the supervisor
\* C10: with backend and frontend run together, the frontend child is spawned
\* only after the readiness probe succeeded; when the probe times out or the
\* backend exits first, the frontend is never spawned and the supervisor ends
\* with a failure status.
C10_FrontendAfterReady ==
    (options.backendOnly = FALSE /\ options.frontendOnly = FALSE) =>
        /\ proc["frontend"].state # "unspawned" => ready = "ok"
        /\ ready \in {"timeout", "exited"} =>
              /\ proc["frontend"].state = "unspawned"
              /\ pc = "exited"
              /\ exitStatus = 1
        /\ pc = "monitor" => ready = "ok"

\* The backend exited after an unsuccessful probe attempt.
C10_Witness ==
    /\ ready = "exited"
    /\ elapsed >= 1
    /\ proc["backend"].exitCode = 0
    /\ proc["frontend"].state = "unspawned"

Unspawned == \A c \in DOMAIN proc: proc[c].state = "unspawned"

C12_EarlyExitReportsThree ==
    cause = "exited" /\ proc["backend"].exitCode = 3 =>
        exitStatus = 3 /\ proc["frontend"].state = "unspawned"

\* C12 amended: the backend exits with code 3 before the probe succeeded;
\* startup fails with exit status 1 and the frontend is never started.
C12_EarlyExitReportsOne ==
    cause = "exited" /\ proc["backend"].exitCode = 3 =>
        exitStatus = 1 /\ proc["frontend"].state = "unspawned"

C12_Witness ==
    /\ cause = "exited"
    /\ proc["backend"].exitCode = 3
    /\ pc = "exited"
    /\ elapsed = 0

\* C13: the exit status is 2 when argument parsing fails, and then no child
\* was spawned; it is 1 when startup fails because no backend can be resolved,
\* the readiness deadline passes, or the backend exits before it is ready.
C13_ExitStatus ==
    /\ cause = "parse" => exitStatus = 2 /\ Unspawned /\ children = <<>>
    /\ cause \in {"resolve", "timeout", "exited"} => exitStatus = 1

C13_Witness == cause = "parse" /\ pc = "exited" /\ exitStatus = 2

\* C14: once a child is spawned, the first termination signal that reaches
\* the supervisor is passed on exactly once to every child still running, also
\* while the supervisor waits for the backend; later signals pass nothing on.
C14_FirstSignalToAll ==
    firstSignal # "" =>
        \A c \in Range(children):
            (proc[c].state = "running" \/ proc[c].signals # <<>>) =>
                proc[c].signals = <<firstSignal>>

\* C15: when a child exits while the supervisor is not shutting down,
\* whatever the exit code, every other child still running receives a
\* termination signal, once.
C15_UnexpectedExitStopsOthers ==
    \A c \in Range(children):
        (pc \in {"monitor", "exited"} /\ proc[c].state = "exited"
            /\ proc[c].signals = <<>> /\ firstSignal = "") =>
                \A d \in Range(children) \ {c}:
                    proc[d].state = "running" => Len(proc[d].signals) = 1

\* C16: after monitoring began the supervisor exits with status 0 only when
\* a termination signal was received; otherwise with the exit code of the
\* child whose exit ended it, or 1 when that child has no exit code.
C16_ZeroOnlyIfIntentional ==
    pc = "exited" /\ cause \in {"child", "done"} =>
        /\ exitStatus = 0 => firstSignal # ""
        /\ cause = "child" =>
              \E c \in Range(children):
                  /\ proc[c].state = "exited"
                  /\ exitStatus = IF proc[c].exitCode # -1 THEN proc[c].exitCode ELSE 1

\* ================================================ properties of the acquirer
\* A source is present when it can deliver a backend: a path that is given, a
\* cache entry that is a non-empty executable regular file, a download that
\* is allowed, configured and succeeds, a name on the search path, cargo with
\* the source tree.
Expected(a) ==
    IF a.in.backendPath THEN "explicit"
    ELSE IF a.in.envPath THEN "env"
    ELSE IF a.seen = "valid" THEN "cache"
    ELSE IF a.in.allow /\ a.in.url /\ a.in.net = "ok" /\ a.seen # "directory"
         THEN "download"
    ELSE IF a.in.inPath THEN "path"
    ELSE IF a.in.cargo THEN "cargo"
    ELSE "none"

\* C17: the result of a resolution comes from the first present source in
\* the order explicit path, environment path, cache, download, search path,
\* source mode.
C17_StrictOrder == acq.pc = "done" => acq.result = Expected(acq)

\* C18: with an explicit backend path the resolution returns that path and
\* reads no cache, downloads nothing and looks up nothing, whatever the
\* environment, the cache and the network are.
C18_ExplicitPathOnly ==
    acq.in.backendPath =>
        /\ acq.did = {}
        /\ acq.pc = "done" /\ acq.result = "explicit"

\* An explicit path was given while every other source was present too.
C18_Witness ==
    /\ acq.pc = "done"
    /\ acq.in.backendPath /\ acq.in.envPath /\ acq.in.inPath /\ acq.in.cargo
    /\ acq.in.allow /\ acq.in.url
    /\ cacheEntry = "valid"

\* C19: a download that fails is not fatal: the resolution does not throw
\* and goes on to the search path and the source-mode fallback.
C19_DownloadFailureNotFatal ==
    (acq.pc = "done" /\ "download" \in acq.did /\ acq.in.net # "ok") =>
        /\ acq.result # "throws"
        /\ acq.result = (IF acq.in.inPath THEN "path"
                         ELSE IF acq.in.cargo THEN "cargo" ELSE "none")

\* C20: a cache entry is returned as the command only if it is a non-empty
\* regular file that is executable.
C20_CacheAcceptedOnlyIfExecutable ==
    (acq.pc = "done" /\ acq.result = "cache") => acq.seen = "valid"

\* C21: with a valid cache entry and neither an explicit nor an environment
\* path, a resolution returns the cache path and fetches nothing, and no
\* step of a resolution removes or replaces a valid entry.
C21_ValidCacheReused ==
    [][/\ (acq'.pc = "done" /\ acq'.seen = "valid") =>
              acq'.result = "cache" /\ "download" \notin acq'.did
       /\ (acq' # acq /\ cacheEntry = "valid") => cacheEntry' = "valid"]_vars

\* A resolution returned the valid cache entry although a download was
\* allowed, configured and would have succeeded.
C21_Witness ==
    /\ acq.pc = "done"
    /\ acq.seen = "valid"
    /\ acq.result = "cache"
    /\ acq.in.allow /\ acq.in.url /\ acq.in.net = "ok"

MessageWords(why) ==
    CASE why = "connfailed" -> {"rpc", "websocket", "connection", "failed"}
      [] why = "notconnected" -> {"rpc", "websocket", "is", "not", "connected"}
      [] why = "disconnected" -> {"rpc", "websocket", "disconnected"}
      [] why = "timeout" -> {"rpc", "call", "timed", "out"}
      [] why = "rpcerror" -> {"rpc", "error"}
      [] OTHER -> {"failed", "to", "execute", "send", "on", "websocket"}

\* tauri.ts: /websocket|rpc|failed|disconnected/i.test(error.message).
isRpcUnavailable(words) ==
    words \cap {"websocket", "rpc", "failed", "disconnected"} # {}

\* tauri.ts: listWorkspaces on top of the call it awaits.
listWorkspaces(out) ==
    IF out = "result" THEN "list"
    ELSE IF isRpcUnavailable(MessageWords(out)) THEN "empty"
    ELSE "rethrown"

\* C29: listWorkspaces returns an empty list when its call was rejected
\* because no connection could be made, the client was not connected, the
\* connection was lost or the request could not be sent, and rethrows every
\* other rejection (a timeout, an error reported by the backend).
C29_EmptyListOnlyWhenUnavailable ==
    \A c \in 1..Len(calls):
        calls[c].rej = 1 =>
            listWorkspaces(calls[c].out) =
                IF calls[c].out \in {"connfailed", "notconnected", "disconnected", "send"}
                THEN "empty" ELSE "rethrown"

\* ================================================ properties of the resolver
Present(x) == x \notin {"none", "blank"}

C24_NoConnectionNoRequest ==
    [][\A c \in 1..Len(calls):
          (calls[c].phase = "await"
             /\ calls'[c].out \in {"connfailed", "notconnected"}) =>
                /\ nextId' = nextId
                /\ pending' = pending
                /\ timers' = timers
                /\ alloc' = alloc
                /\ calls'[c].id = 0
                /\ calls'[c].rej = 1]_vars

\* A second call could not connect after the first one had been sent.
C24_Witness ==
    /\ Len(calls) = 2
    /\ calls[1].id = 1
    /\ calls[2].out = "connfailed"
    /\ nextId = 2

\* C25: a message that is not a reply or notification, or a reply whose id
\* has no pending call, is dropped: no call settles, no handler runs, the
\* pending map, the timers and the topic map stay as they were, and the
\* connection stays as it was.
C25_UnmatchedDropped ==
    [][(ev'.n = "junk" \/ (ev'.n = "reply" /\ ev'.x \notin pending)) =>
          /\ calls' = calls
          /\ pending' = pending
          /\ timers' = timers
          /\ listeners' = listeners
          /\ note' = NoNote
          /\ socket' = socket
          /\ rs' = rs
          /\ connectPromise' = connectPromise
          /\ reconnectHandle' = reconnectHandle
          /\ mq' = mq]_vars

\* A reply with an id that was never given out arrived while a call was
\* pending.
C25_Witness ==
    /\ ev.n = "reply"
    /\ ev.x \notin Range(alloc)
    /\ pending # {}

\* C27: no topic of the topic map has an empty handler set.
C27_NoEmptyTopic ==
    \A t \in DOMAIN listeners: Len(listeners[t]) > 0

\* Two handlers were subscribed to a topic, and the unsubscribe call that
\* removed the last of them left the topic out of the map.
C27_Witness ==
    /\ ev.n = "unsubscribe"
    /\ ev.x \notin DOMAIN listeners
    /\ Cardinality({p \in DOMAIN subs: p[1] = ev.x}) = 2

\* C28: when a handler throws during a dispatch, every other handler of the
\* topic is still invoked (unless a handler unsubscribed it), and nothing but
\* the handlers' own unsubscribing changes: the connection, the pending map
\* and the timers stay as they were.
C28_ThrowIsolated ==
    [][(ev'.n = "note" /\ \E h \in Range(note'.log): note'.beh[h] = Throws) =>
          /\ \A h \in Range(note'.pre):
                \/ h \in Range(note'.log)
                \/ \E g \in Range(note'.log): note'.beh[g] = h /\ g # h
          /\ (\A g \in Range(note'.log): note'.beh[g] <= 0) => listeners' = listeners
          /\ rs' = rs
          /\ socket' = socket
          /\ pending' = pending
          /\ timers' = timers
          /\ mq' = mq]_vars

\* The first of two handlers threw and the second one was invoked after it.
C28_Witness ==
    /\ note.topic # 0
    /\ Len(note.pre) = 2
    /\ note.beh[note.pre[1]] = Throws
    /\ note.log = note.pre

\* A transport that has not delivered its close event yet.
Unclosed(s) == rs[s] # "CLOSED"

\* C26: with a subscription active and no disconnect() in force, every
\* unexpected close and every failed reconnection attempt leaves the
\* reconnect timer armed, a timer that fires starts (or joins) a connection
\* attempt, and once a connection was lost there is always a timer armed, a
\* retry about to be scheduled or a transport that is connecting, open or
\* about to report its close.
C26_RetryNeverStops ==
    /\ []((DOMAIN listeners # {} /\ ~intentionalClose /\ closure # "") =>
             \/ reconnectHandle
             \/ \E s \in 1..Len(rs): Unclosed(s)
             \/ \E i \in 1..Len(mq): mq[i].k = "catch")
    /\ [][/\ (ev'.n \in {"lost", "catch"} /\ DOMAIN listeners # {}
                 /\ ~intentionalClose) => reconnectHandle'
          /\ (ev'.n = "timer" /\ DOMAIN listeners # {}) =>
                \/ socket' # 0 /\ rs'[socket'] \in {"OPEN", "CONNECTING"}
                \/ connectPromise' # 0 /\ Unclosed(connectPromise)']_vars

\* A reconnection attempt failed and its .catch armed the timer again.
C26_Witness ==
    /\ ev.n = "catch"
    /\ DOMAIN listeners # {}
    /\ ~intentionalClose
    /\ closure = "work"
    /\ reconnectHandle
    /\ \E s \in 1..Len(rs): rs[s] = "ERRORED"

\* What a reply to the pending call c makes of it.
Answered(c, err) ==
    IF err
    THEN [calls[c] EXCEPT !.rej = 1, !.phase = "settled", !.out = "rpcerror"]
    ELSE [calls[c] EXCEPT !.res = 1, !.phase = "settled", !.out = "result"]

\* C31: a reply settles exactly the pending call whose id it carries: with an
\* error the call is rejected with the error's message, without one it is
\* resolved, its entry and timer are removed, and every other call, pending
\* entry and timer stay as they were, whatever the order of the replies.
C31_ReplyMatchedById ==
    /\ [](\A id \in pending, err \in BOOLEAN:
             LET c == Owner(St, id)
                 r == reply(St, id, err)
             IN /\ calls[c].phase = "sent"
                /\ r.calls = [calls EXCEPT ![c] = Answered(c, err)]
                /\ r.pending = pending \ {id}
                /\ r.timers = timers \ {id})
    /\ [][(ev'.n = "reply" /\ ev'.x \in pending) =>
             LET c == Owner(St, ev'.x)
             IN /\ \E err \in BOOLEAN: calls' = [calls EXCEPT ![c] = Answered(c, err)]
                /\ pending' = pending \ {ev'.x}
                /\ timers' = timers \ {ev'.x}
                /\ UNCHANGED <<socket, rs, listeners, nextId>>]_vars

\* On one connection the second call was answered with an error while the
\* first was still pending, and then the first was answered with a result.
C31_Witness ==
    /\ Len(rs) = 1
    /\ alloc = <<1, 2>>
    /\ calls[1].id = 1 /\ calls[2].id = 2
    /\ calls[2].out = "rpcerror"
    /\ calls[1].out = "result"
    /\ ev = [n |-> "reply", x |-> 1]

\* C32: the wait for the backend ends, in a probe that connected, in the
\* deadline or in the backend's exit; the first of them decides, the frontend
\* is started only after a probe connected, and what has ended the wait is
\* not changed by anything that happens later.
C32_RaceEnds ==
    /\ (pc = "waiting") ~> (pc # "waiting")
    /\ [](/\ pc = "waiting" => ready = "probing"
          /\ ready = "ok" => proc["frontend"].state # "unspawned"
          /\ ready = "timeout" =>
                /\ pc = "exited" /\ exitStatus = 1 /\ elapsed > ReadyTicks
                /\ proc["backend"].state = "running" /\ proc["backend"].killed
                /\ proc["frontend"].state = "unspawned"
          /\ ready = "exited" =>
                /\ pc = "exited" /\ exitStatus = 1
                /\ proc["backend"].state = "exited" /\ ~proc["backend"].killed
                /\ proc["frontend"].state = "unspawned")
    /\ [][/\ ready \in {"ok", "timeout", "exited"} => ready' = ready
          /\ (ready = "probing" /\ ready' # ready) =>
                /\ pc = "waiting"
                /\ ready' \in {"ok", "timeout", "exited"}]_vars

\* The probe connected after a failed attempt, and the backend exited later.
C32_Witness ==
    /\ ready = "ok"
    /\ elapsed > 0
    /\ proc["backend"].state = "exited"

\* C33: the file at the cache path is at every moment absent or the whole
\* binary, never a part of it, including when a download fails midway and
\* when two processes download the same entry at once.
C33_CacheNeverPartial ==
    dl.target # 0 => dl.files[dl.target] = Whole

\* C34: when downloading is not permitted and no explicit or environment
\* path is given, the resolution makes no request; without a cache entry it
\* returns what the search path or the source fallback gives, and a valid
\* cache entry is still returned.
C34_NoDownloadWhenForbidden ==
    /\ (acq.pc \in {"fetch", "done"} /\ ~acq.in.allow) =>
          /\ acq.pc = "done"
          /\ "download" \notin acq.did
    /\ (acq.pc = "done" /\ ~acq.in.allow /\ ~acq.in.backendPath /\ ~acq.in.envPath) =>
          /\ acq.seen = "missing" =>
                acq.result = IF acq.in.inPath THEN "path"
                             ELSE IF acq.in.cargo THEN "cargo" ELSE "none"
          /\ acq.seen = "valid" => acq.result = "cache"

\* Downloading was forbidden although a URL was configured and reachable; the
\* cache was empty and the source fallback was returned.
C34_Witness ==
    /\ acq.pc = "done"
    /\ ~acq.in.allow /\ acq.in.url /\ acq.in.net = "ok"
    /\ ~acq.in.inPath /\ acq.in.cargo
    /\ acq.seen = "missing"
    /\ acq.result = "cargo"

\* C35: a close event rejects only calls that were sent on the transport that
\* closed, and the close event of a transport the client has replaced
\* neither clears the client's reference to the newer transport nor
\* schedules a reconnection.
C35_StaleCloseHarmless ==
    [][ev'.n \in {"closed", "lost"} =>
          /\ \A c \in 1..Len(calls):
                (calls[c].phase = "sent" /\ calls'[c].phase = "settled") =>
                    calls[c].on = ev'.x
          /\ (socket # 0 /\ socket # ev'.x) =>
                /\ socket' = socket
                /\ reconnectHandle' = reconnectHandle]_vars

\* A transport whose handlers can still deliver to the client: it is
\* connecting or open (a transport that close() was called on delivers no
\* message).
Attached(s) == rs[s] \in {"CONNECTING", "OPEN"}

\* C36: at no time are two transports of the client connecting or open with
\* their message handlers attached, so a notification the backend broadcasts
\* reaches the handlers of its topic over one transport only.
C36_OneAttachedTransport ==
    \A s, t \in 1..Len(rs): (Attached(s) /\ Attached(t)) => s = t

\* C37: every call() settles in the end, provided continuations run, timers
\* fire and every transport reports open, error or close.
C37_EveryCallSettles ==
    \A c \in 1..LiveCalls:
        (Len(calls) >= c) ~> (Len(calls) >= c /\ calls[c].phase = "settled")

\* C38: when the supervisor has exited, every child it spawned has exited or
\* was sent a termination signal by the supervisor.
C38_NoChildLeftUnsignalled ==
    pc = "exited" =>
        \A c \in DOMAIN proc:
            proc[c].state = "running" => proc[c].signals # <<>>

\* C39: the ids with a pending entry are the ids with an armed timeout
\* timer, in every state, and a timeout fires only for a call that has not
\* settled.
C39_PendingIffTimer ==
    /\ [](pending = timers)
    /\ [](\A id \in pending: calls[Owner(St, id)].phase = "sent")
    /\ [][ev'.n = "timeout" =>
             /\ ev'.x \in pending
             /\ calls[Owner(St, ev'.x)].phase = "sent"]_vars

\* The send of the first call failed, and the second call is pending with
\* its timer armed.
C39_Witness ==
    /\ Len(calls) = 2
    /\ calls[1].out = "send"
    /\ calls[2].id # 0
    /\ pending = {calls[2].id}
    /\ timers = pending

\* A recognition whose handlers are set and whose recognizer has not ended.
Active(r) == dict.recs[r].attached /\ dict.recs[r].eng # "ended"

\* C40: the controller holds the only active recognition, an event of a
\* recognition that was replaced or stopped changes nothing of the
\* controller, and once the controller holds no recognition the state
\* returns to "idle".
C40_DictationSettles ==
    /\ [](\A r \in 1..Len(dict.recs): Active(r) => dict.recognition = r)
    /\ [][(dict'.last.n \in {"onstart", "onresult", "onerror", "onend"}
             /\ ~dict.recs[dict'.last.r].attached) =>
                /\ dict'.state = dict.state
                /\ dict'.recognition = dict.recognition]_vars
    /\ (dict.recognition = 0) ~> (dict.state = "idle")

====
